---- MODULE Spec2Model ----
(***************************************************************************)
(* Model of main.py: load_spans and evaluate (span matching, the label     *)
(* pair lists handed to sklearn, the confusion matrix and the per-label    *)
(* TP / FP / FN table).                                                    *)
(*                                                                         *)
(* A JSON offset is a tagged value: I(v) is the integer v, S(v) the JSON   *)
(* string holding the digits of v (a non-integer offset).  Python compares *)
(* 1 and "1" unequal, and so do the two records.  A span is the tuple      *)
(* <<start, end, label>>; sequences are 1-based where Python's are 0-based.*)
(***************************************************************************)
EXTENDS Integers, Sequences, FiniteSets

\* ---------------------------------------------------------------- bounds
TextLen == 2
MaxGold == 2
MaxPred == 2

\* ---------------------------------------------------------------- inputs
Labels == {"A", "B"}
\* the labels in the order Python's sorted() puts them
LabelOrder == <<"A", "B">>
\* the sentinel label of lines 97 and 102
O == "O"

I(v) == [int |-> TRUE, v |-> v]
S(v) == [int |-> FALSE, v |-> v]

\* the document text: len(text) = TextLen
text == [i \in 1..TextLen |-> IF i % 2 = 1 THEN "a" ELSE "b"]

\* spans as the model returns them: 0 <= start < end <= len(text)
ValidSpans == {<<I(t[1]), I(t[2]), t[3]>> : t \in {u \in (0..TextLen) \X (0..TextLen) \X Labels : u[1] < u[2]}}

\* records of the JSON file no validation would accept
MalformedRecords == { <<I(0), I(1)>>, <<I(0), I(1), "A", "A">>, <<S(0), I(1), "A">>, <<I(1), I(TextLen + 1), "A">>, <<I(1), I(1), "B">>, <<I(TextLen), I(1), "B">> }

WellFormed(r) == /\ Len(r) = 3
                 /\ r[1].int /\ r[2].int
                 /\ 0 <= r[1].v /\ r[1].v < r[2].v /\ r[2].v <= TextLen

RECURSIVE SeqsUpTo(_, _)
SeqsUpTo(U, n) == IF n = 0 THEN {<<>>} ELSE LET shorter == SeqsUpTo(U, n - 1) IN shorter \cup {Append(q, u) : q \in shorter, u \in U}

EntityLists == SeqsUpTo(ValidSpans \cup MalformedRecords, MaxGold)
PredLists == SeqsUpTo(ValidSpans, MaxPred)

\* ---------------------------------------------------------------- helpers
Range(q) == {q[k] : k \in DOMAIN q}
Count(q, x) == Cardinality({k \in DOMAIN q : q[k] = x})
CountLabel(q, l) == Cardinality({k \in DOMAIN q : q[k][3] = l})

\* text[s:e] for non-negative integer offsets: out-of-range bounds are clamped
Slice(t, s, e) == LET lo == IF s < Len(t) THEN s ELSE Len(t)
                      hi == IF e < Len(t) THEN e ELSE Len(t)
                  IN IF lo >= hi THEN <<>> ELSE SubSeq(t, lo + 1, hi)

\* ---------------------------------------------------------------- evaluate, step 2
GoldSet(gold) == Range(gold)

\* a stray break: only the first matching prediction is marked
MatchedPredsFirstOnly(gs, p) == {i \in DOMAIN p : p[i] \in gs /\ \A j \in 1..(i - 1) : p[j] \notin gs}
MatchedPreds(gs, p) == {i \in DOMAIN p : p[i] \in gs}

PredStatus(p, matched) == [i \in DOMAIN p |-> IF i \in matched THEN "TP" ELSE "FP"]

FnEntities(gold, gs, p) == SelectSeq(gold, LAMBDA g : g \notin (gs \cap gs) /\ g \notin Range(p))

\* ---------------------------------------------------------------- evaluate, step 3
PredLines(p, status) == [i \in DOMAIN p |-> [status |-> status[i], s |-> p[i][1], e |-> p[i][2], txt |-> Slice(text, p[i][1].v, p[i][2].v), lbl |-> p[i][3]]]
FnLines(fn) == [i \in DOMAIN fn |-> [status |-> "FN", s |-> fn[i][1], e |-> fn[i][2], txt |-> Slice(text, fn[i][1].v, fn[i][2].v), lbl |-> fn[i][3]]]

\* ---------------------------------------------------------------- evaluate, step 4
\* a missed gold span is skipped instead of being paired with the sentinel
GoldPairsSkipMissed(gold, gs, p) == LET hit == gs \cap Range(p) IN [k \in DOMAIN SelectSeq(gold, LAMBDA g : g \in hit) |-> <<SelectSeq(gold, LAMBDA g : g \in hit)[k][3], SelectSeq(gold, LAMBDA g : g \in hit)[k][3]>>]
GoldPairs(gold, gs, p) == LET hit == gs \cap Range(p) IN [k \in DOMAIN gold |-> IF gold[k] \in hit THEN <<gold[k][3], gold[k][3]>> ELSE <<gold[k][3], O>>]

RECURSIVE FpPairs(_, _, _)
FpPairs(p, matched, i) == IF i > Len(p) THEN <<>> ELSE (IF i \notin matched THEN << <<O, p[i][3]>> >> ELSE <<>>) \o FpPairs(p, matched, i + 1)

\* ---------------------------------------------------------------- evaluate, step 5
LabelList(yt, yp) == LET seen == {yt[k] : k \in DOMAIN yt} \cup {yp[k] : k \in DOMAIN yp} IN SelectSeq(LabelOrder, LAMBDA l : l \in seen /\ l # O) \o <<O>>

ConfusionMatrix(yt, yp, labs) == [i \in DOMAIN labs |-> [j \in DOMAIN labs |-> Cardinality({k \in DOMAIN yt : yt[k] = labs[i] /\ yp[k] = labs[j]})]]

RECURSIVE SumTo(_, _)
SumTo(f, n) == IF n = 0 THEN 0 ELSE f[n] + SumTo(f, n - 1)
ColSum(m, i) == SumTo([r \in DOMAIN m |-> m[r][i]], Len(m))
RowSum(m, i) == SumTo(m[i], Len(m))

RECURSIVE SummaryRows(_, _, _)
SummaryRows(m, labs, i) == IF i > Len(labs) THEN <<>> ELSE (IF labs[i] = O THEN <<>> ELSE << [label |-> labs[i], TP |-> m[i][i], FP |-> ColSum(m, i) - m[i][i], FN |-> RowSum(m, i) - m[i][i]] >>) \o SummaryRows(m, labs, i + 1)

\* line 107: the counts behind each row of the classification report
ReportCounts(yt, yp) == [l \in {yt[k] : k \in DOMAIN yt} \cup {yp[k] : k \in DOMAIN yp} |-> [tp |-> Cardinality({k \in DOMAIN yt : yt[k] = l /\ yp[k] = l}), predicted |-> Cardinality({k \in DOMAIN yp : yp[k] = l}), support |-> Cardinality({k \in DOMAIN yt : yt[k] = l})]]

\* ---------------------------------------------------------------- state
VARIABLES pc, entities, gold_spans, pred, gold_set, matched_preds, pred_status, fn_entities, out, y_true, y_pred, report, labels, cm, summary

vars == <<pc, entities, gold_spans, pred, gold_set, matched_preds, pred_status, fn_entities, out, y_true, y_pred, report, labels, cm, summary>>

Init == /\ pc = "load"
        /\ entities \in EntityLists
        /\ gold_spans = <<>>
        /\ pred = <<>>
        /\ gold_set = {}
        /\ matched_preds = {}
        /\ pred_status = <<>>
        /\ fn_entities = <<>>
        /\ out = <<>>
        /\ y_true = <<>>
        /\ y_pred = <<>>
        /\ report = <<>>
        /\ labels = <<>>
        /\ cm = <<>>
        /\ summary = <<>>

\* load_spans: one tuple per entry of data["entities"], nothing checked
LoadSpans == /\ pc = "load"
             /\ gold_spans' = [k \in DOMAIN entities |-> entities[k]]
             /\ pc' = "model"
             /\ UNCHANGED <<entities, pred, gold_set, matched_preds, pred_status, fn_entities, out, y_true, y_pred, report, labels, cm, summary>>

\* step 1: nlp is a parameter, its entities are any list of spans of the text
RunModel == /\ pc = "model"
            /\ \E p \in PredLists : pred' = p
            /\ pc' = "match"
            /\ UNCHANGED <<entities, gold_spans, gold_set, matched_preds, pred_status, fn_entities, out, y_true, y_pred, report, labels, cm, summary>>

\* step 2: the set comprehension of line 64 unpacks every gold tuple into three names
Match == /\ pc = "match"
         /\ IF \E k \in DOMAIN gold_spans : Len(gold_spans[k]) # 3
            THEN /\ pc' = "error"
                 /\ UNCHANGED <<gold_set, matched_preds, pred_status, fn_entities>>
            ELSE /\ gold_set' = GoldSet(gold_spans)
                 /\ matched_preds' = MatchedPreds(gold_set', pred)
                 /\ pred_status' = PredStatus(pred, matched_preds')
                 /\ fn_entities' = FnEntities(gold_spans, gold_set', pred)
                 /\ pc' = "print"
         /\ UNCHANGED <<entities, gold_spans, pred, out, y_true, y_pred, report, labels, cm, summary>>

\* step 3: slicing text with a non-integer offset raises
PrintOutcomes == /\ pc = "print"
                 /\ IF \E k \in DOMAIN fn_entities : ~fn_entities[k][1].int \/ ~fn_entities[k][2].int
                    THEN /\ pc' = "error"
                         /\ out' = PredLines(pred, pred_status)
                    ELSE /\ pc' = "lists"
                         /\ out' = PredLines(pred, pred_status) \o FnLines(fn_entities)
                 /\ UNCHANGED <<entities, gold_spans, pred, gold_set, matched_preds, pred_status, fn_entities, y_true, y_pred, report, labels, cm, summary>>

\* step 4
BuildLists == /\ pc = "lists"
              /\ LET pairs == GoldPairs(gold_spans, gold_set, pred) \o FpPairs(pred, matched_preds, 1)
                 IN /\ y_true' = [k \in DOMAIN pairs |-> pairs[k][1]]
                    /\ y_pred' = [k \in DOMAIN pairs |-> pairs[k][2]]
              /\ pc' = "report"
              /\ UNCHANGED <<entities, gold_spans, pred, gold_set, matched_preds, pred_status, fn_entities, out, report, labels, cm, summary>>

\* step 5, line 107: the library call.  With zero_division=0 a label's
\* precision is tp/predicted, its recall tp/support and its F1
\* 2*tp/(predicted+support), each 0 when its denominator is 0.  What the call
\* does with two empty lists is not fixed by this program: it returns or raises.
ClassificationReport == /\ pc = "report"
                        /\ \E ok \in (IF y_true = <<>> THEN {TRUE, FALSE} ELSE {TRUE}) :
                              /\ pc' = IF ok THEN "cm" ELSE "error"
                              /\ report' = IF ok THEN ReportCounts(y_true, y_pred) ELSE report
                        /\ UNCHANGED <<entities, gold_spans, pred, gold_set, matched_preds, pred_status, fn_entities, out, y_true, y_pred, labels, cm, summary>>

\* step 5, lines 109-117
BuildConfusion == /\ pc = "cm"
                  /\ labels' = LabelList(y_true, y_pred)
                  /\ cm' = ConfusionMatrix(y_true, y_pred, labels')
                  /\ pc' = "summary"
                  /\ UNCHANGED <<entities, gold_spans, pred, gold_set, matched_preds, pred_status, fn_entities, out, y_true, y_pred, report, summary>>

\* step 5, lines 119-131
BuildSummary == /\ pc = "summary"
                /\ summary' = SummaryRows(cm, labels, 1)
                /\ pc' = "done"
                /\ UNCHANGED <<entities, gold_spans, pred, gold_set, matched_preds, pred_status, fn_entities, out, y_true, y_pred, report, labels, cm>>

Next == \/ LoadSpans
        \/ RunModel
        \/ Match
        \/ PrintOutcomes
        \/ BuildLists
        \/ ClassificationReport
        \/ BuildConfusion
        \/ BuildSummary

Spec == Init /\ [][Next]_vars

TypeOK == pc \in {"load", "model", "match", "print", "lists", "report", "cm", "summary", "done", "error"}

\* ---------------------------------------------------------------- reading the result
HasRow(l) == \E k \in DOMAIN summary : summary[k].label = l
Row(l) == summary[CHOOSE k \in DOMAIN summary : summary[k].label = l]
Min(a, b) == IF a < b THEN a ELSE b
Monus(a, b) == IF a > b THEN a - b ELSE 0
\* the (true, predicted) pairs handed to sklearn, as a count per pair
PairCount(t, l) == Cardinality({k \in DOMAIN y_true : y_true[k] = t /\ y_pred[k] = l})
\* prediction i finds no unconsumed occurrence of its triple in gold
NotPresent(i) == Count(gold_spans, pred[i]) <= Count(SubSeq(pred, 1, i - 1), pred[i])
\* the gold spans of the printed FN lines
FnPrinted == LET fnl == SelectSeq(out, LAMBDA ln : ln.status = "FN") IN [k \in DOMAIN fnl |-> <<fnl[k].s, fnl[k].e, fnl[k].lbl>>]
MissedGold == SelectSeq(gold_spans, LAMBDA g : g \notin Range(pred))

AllWellFormed == \A k \in DOMAIN entities : WellFormed(entities[k])
NoRepeat(q) == \A i, j \in DOMAIN q : q[i] = q[j] => i = j
Permutations(q) == {[i \in DOMAIN q |-> q[f[i]]] : f \in {g \in [DOMAIN q -> DOMAIN q] : \A i, j \in DOMAIN q : g[i] = g[j] => i = j}}
SameLines(a, b) == Len(a) = Len(b) /\ \A ln \in Range(a) \cup Range(b) : Count(a, ln) = Count(b, ln)

\* evaluate's results as functions of its two lists (gold tuples of arity 3)
PairsOf(gold, p) == GoldPairs(gold, GoldSet(gold), p) \o FpPairs(p, MatchedPreds(GoldSet(gold), p), 1)
YTrueOf(gold, p) == [k \in DOMAIN PairsOf(gold, p) |-> PairsOf(gold, p)[k][1]]
YPredOf(gold, p) == [k \in DOMAIN PairsOf(gold, p) |-> PairsOf(gold, p)[k][2]]
LabelsOf(gold, p) == LabelList(YTrueOf(gold, p), YPredOf(gold, p))
CmOf(gold, p) == ConfusionMatrix(YTrueOf(gold, p), YPredOf(gold, p), LabelsOf(gold, p))
SummaryOf(gold, p) == SummaryRows(CmOf(gold, p), LabelsOf(gold, p), 1)
OutOf(gold, p) == PredLines(p, PredStatus(p, MatchedPreds(GoldSet(gold), p))) \o FnLines(FnEntities(gold, GoldSet(gold), p))
\* Matched / Missed of each gold span, read off lines 94-97
GoldStatus == [k \in DOMAIN gold_spans |-> IF y_pred[k] = O THEN "Missed" ELSE "Matched"]

\* ---------------------------------------------------------------- the specified multiset matching
\* section 4.1: the bag of gold occurrences not yet consumed
GoldBag(gold, p) == [k \in Range(gold) \cup Range(p) |-> Count(gold, k)]

\* section 4.1 step 2: predictions in input order, each TP consumes one occurrence
RECURSIVE BagPredStatus(_, _, _)
BagPredStatus(remaining, p, i) == IF i > Len(p) THEN <<>> ELSE IF remaining[p[i]] > 0 THEN <<"TP">> \o BagPredStatus([remaining EXCEPT ![p[i]] = @ - 1], p, i + 1) ELSE <<"FP">> \o BagPredStatus(remaining, p, i + 1)

RECURSIVE BagLeft(_, _, _)
BagLeft(remaining, p, i) == IF i > Len(p) THEN remaining ELSE IF remaining[p[i]] > 0 THEN BagLeft([remaining EXCEPT ![p[i]] = @ - 1], p, i + 1) ELSE BagLeft(remaining, p, i + 1)

\* section 4.1 step 3: per key, as many Missed markers as occurrences are left over
BagGoldStatus(gold, p) == LET left == BagLeft(GoldBag(gold, p), p, 1) IN [k \in DOMAIN gold |-> IF Count(gold, gold[k]) - Count(SubSeq(gold, 1, k - 1), gold[k]) <= left[gold[k]] THEN "Missed" ELSE "Matched"]

\* section 4.2: the label-pair stream
RECURSIVE BagFpPairs(_, _, _)
BagFpPairs(p, status, i) == IF i > Len(p) THEN <<>> ELSE (IF status[i] = "FP" THEN << <<O, p[i][3]>> >> ELSE <<>>) \o BagFpPairs(p, status, i + 1)
BagPairs(gold, p) == [k \in DOMAIN gold |-> IF BagGoldStatus(gold, p)[k] = "Matched" THEN <<gold[k][3], gold[k][3]>> ELSE <<gold[k][3], O>>] \o BagFpPairs(p, BagPredStatus(GoldBag(gold, p), p, 1), 1)
BagCm(gold, p) == LET prs == BagPairs(gold, p)
                      yt == [k \in DOMAIN prs |-> prs[k][1]]
                      yp == [k \in DOMAIN prs |-> prs[k][2]]
                  IN ConfusionMatrix(yt, yp, LabelList(yt, yp))

\* ---------------------------------------------------------------- claims

\* C1 (multiplicity): when gold holds N copies of one triple k, the
\* predictions hold M copies of k and nothing else is present, the row of
\* k's label is TP = min(N, M), FP = max(0, M - N), FN = max(0, N - M).
C1_Multiplicity == pc = "done" => \A k \in ValidSpans : (Range(gold_spans) \cup Range(pred) = {k}) => LET N == Count(gold_spans, k)
                                                                                                        M == Count(pred, k)
                                                                                                    IN /\ HasRow(k[3])
                                                                                                       /\ Row(k[3]).TP = Min(N, M)
                                                                                                       /\ Row(k[3]).FP = Monus(M, N)
                                                                                                       /\ Row(k[3]).FN = Monus(N, M)

\* C2 (conservation, prediction side): for every real label L, TP + FP of
\* L's row (the column sum of L) is the number of predicted spans labelled L.
C2_PredConservation == (AllWellFormed /\ pc = "done") => \A l \in Labels : IF HasRow(l) THEN Row(l).TP + Row(l).FP = CountLabel(pred, l) ELSE CountLabel(pred, l) = 0

\* C3 (conservation, gold side): for every real label L, TP + FN of L's row
\* (the row sum of L, sentinel column included) is the number of gold spans
\* labelled L.
C3_GoldConservation == pc = "done" => \A l \in Labels : IF HasRow(l) THEN Row(l).TP + Row(l).FN = CountLabel(gold_spans, l) ELSE CountLabel(gold_spans, l) = 0
\* a label with one gold span found and another missed
C3_Witness == pc = "done" /\ \E l \in Labels : HasRow(l) /\ Row(l).TP >= 1 /\ Row(l).FN >= 1

\* C4 (missed-gold listing): after the prediction lines one FN line is
\* printed for each gold span without a matching prediction, so fn_entities
\* is non-empty whenever a gold span is missed.
C4_MissedListed == (AllWellFormed /\ pc \in {"lists", "report", "cm", "summary", "done"}) =>
    /\ FnPrinted = MissedGold
    /\ (MissedGold # <<>> => fn_entities # <<>>)

\* C5 (exactness): a prediction that finds no unconsumed occurrence of its
\* triple in gold has status FP and adds one (sentinel, label) pair, also
\* when earlier predictions used up every gold occurrence of its triple.
C5_Exactness == (AllWellFormed /\ pc = "done") =>
    /\ \A i \in DOMAIN pred : NotPresent(i) => pred_status[i] = "FP" /\ i \notin matched_preds
    /\ \A l \in Labels : PairCount(O, l) = Cardinality({i \in DOMAIN pred : NotPresent(i) /\ pred[i][3] = l})

\* C6 (malformed gold rejected): a gold record of wrong arity, with a
\* non-integer offset, an offset outside [0, len(text)] or start >= end ends
\* the run in an error before any matching step; no run gets past matching or
\* completes on such a record.
C6_MalformedRejected == ~AllWellFormed => pc \notin {"print", "lists", "report", "cm", "summary", "done"}

\* C7 (order independence): for every gold list, every permutation of the
\* prediction list gives the same confusion matrix and the same per-label
\* TP / FP / FN rows; the printed lines are the same lines in another order.
C7_OrderIndependence == pc = "done" => \A p2 \in Permutations(pred) : /\ CmOf(gold_spans, p2) = cm
                                                                       /\ SummaryOf(gold_spans, p2) = summary
                                                                       /\ SameLines(OutOf(gold_spans, p2), out)
\* two different predictions, one a TP and one an FP, and a gold span missed
C7_Witness == pc = "done" /\ Len(pred) = 2 /\ pred_status[1] # pred_status[2] /\ \E k \in DOMAIN y_pred : y_true[k] # O /\ y_pred[k] = O

\* C8 (perfect match): when the predictions equal gold_spans element-wise,
\* every prediction is TP and every label present has TP >= 1, FP = 0, FN = 0,
\* so its precision, recall and F1 in the report are 1.
C8_PerfectMatch == (pc = "done" /\ pred = gold_spans) => /\ \A i \in DOMAIN pred : pred_status[i] = "TP"
                                                         /\ \A l \in Labels : CountLabel(gold_spans, l) > 0 => /\ HasRow(l)
                                                                                                               /\ Row(l).TP >= 1 /\ Row(l).FP = 0 /\ Row(l).FN = 0
                                                                                                               /\ l \in DOMAIN report
                                                                                                               /\ report[l].predicted > 0 /\ report[l].tp = report[l].predicted
                                                                                                               /\ report[l].support > 0 /\ report[l].tp = report[l].support
                                                                                                               /\ 2 * report[l].tp = report[l].predicted + report[l].support
\* two predictions equal to the two gold spans
C8_Witness == pc = "done" /\ pred = gold_spans /\ Len(pred) = 2

C9_GoldEmpty == /\ \A i \in DOMAIN pred : pred_status[i] = "FP"
                /\ \A l \in Labels : IF HasRow(l) THEN Row(l).TP = 0 /\ Row(l).FN = 0 /\ Row(l).FP = CountLabel(pred, l) ELSE CountLabel(pred, l) = 0
C9_PredEmpty == /\ \A l \in Labels : PairCount(l, O) = CountLabel(gold_spans, l)
                /\ \A l \in Labels : IF HasRow(l) THEN Row(l).TP = 0 /\ Row(l).FP = 0 /\ Row(l).FN = CountLabel(gold_spans, l) ELSE CountLabel(gold_spans, l) = 0
C9_BothEmpty == pc # "error" /\ (pc = "done" => summary = <<>>)

\* C9 (emptiness): with gold empty every prediction is FP and each label has
\* TP = 0, FN = 0, FP = its predictions; with no prediction every gold span
\* is missed once and each label has TP = 0, FP = 0, FN = its gold spans;
\* with both empty the run completes without error and the table is empty.
C9_Emptiness == /\ (pc = "done" /\ gold_spans = <<>>) => C9_GoldEmpty
                /\ (pc = "done" /\ pred = <<>>) => C9_PredEmpty
                /\ (entities = <<>> /\ pred = <<>>) => C9_BothEmpty

\* C10 (set matching against multiset matching): when neither gold_spans nor
\* the prediction list repeats a triple, every prediction has the status,
\* every gold span the Matched / Missed mark and the confusion matrix the
\* entries that the specified multiset matching gives in prediction order.
C10_SetIsBag == (pc = "done" /\ NoRepeat(gold_spans) /\ NoRepeat(pred)) => /\ pred_status = BagPredStatus(GoldBag(gold_spans, pred), pred, 1)
                                                                           /\ GoldStatus = BagGoldStatus(gold_spans, pred)
                                                                           /\ cm = BagCm(gold_spans, pred)
\* no repeats, two gold spans and two predictions, a TP, an FP and a miss
C10_Witness == pc = "done" /\ NoRepeat(gold_spans) /\ NoRepeat(pred) /\ Len(gold_spans) = 2 /\ Len(pred) = 2 /\ pred_status[1] # pred_status[2] /\ \E k \in DOMAIN gold_spans : y_pred[k] = O
====
